---- MODULE Spec2Model ----
(***************************************************************************)
(* Model of corrscope/outputs.py: the frame sinks FFmpegOutput and         *)
(* FFplayOutput (both PipeOutput), the child processes they spawn, the     *)
(* buffered stdin stream of the first process and the OS pipe behind it.   *)
(*                                                                         *)
(* One caller thread runs the constructor, the `with` block (write_frame,  *)
(* close, terminate) and __exit__.  pc is its position; it is split only   *)
(* where the code can block: the raw write behind a buffer flush and       *)
(* Popen.wait.  The child processes are independent OS processes whose     *)
(* behaviour (drains stdin or not, honours SIGTERM or not, exits on its    *)
(* own or not) is fixed when they are spawned.                             *)
(***************************************************************************)
EXTENDS Integers, FiniteSets, Sequences, TLC

\* ---------------------------------------------------------------- bounds
MaxDim == 1        \* render width and height range over 1..MaxDim
PipeCap == 2       \* bytes the OS pipe holds before a raw write blocks
MaxFrames == 3     \* write_frame calls the caller makes in one run
MaxCalls == 1      \* explicit close()/terminate() calls made inside the block
MaxTime == 2       \* begin_time and end_time range over 0..MaxTime

\* ------------------------------------------------------ program constants
RGB_DEPTH == 3
FRAMES_TO_BUFFER == 2

VARIABLES
    kind, width, height,          \* which sink class, RenderConfig
    fps, masterAudio, beginTime, endTime, \* render_fps, master_audio, begin_time, end_time
    path, extraArgs,              \* FFmpegOutputConfig.path and .args (tokenised)
    args,                         \* the argument list handed to Popen for ffmpeg
    p1stdout,                     \* the sink's handle on ffmpeg's stdout pipe: none/open/closed
    pc,                           \* position of the caller thread
    proc, code,                   \* per process: "none"/"running"/"exited", returncode
    reads, ignoresTerm, exits,    \* per process behaviour, fixed at spawn
    stream, buf, pipe,            \* self._stream state, bytes buffered, bytes in OS pipe
    frames, wfBroken, wfResult,   \* write_frame: calls made, peer gone at call, last result
    wfError,                      \* exception the stream raised in the last write_frame
    closeCaller, closeWait,       \* running close(): who called it, its wait argument
    retval, idx,                  \* loop state of close() / terminate()
    closeDone, closeRetWait, closeRet, closeRunning, \* last returned close()
    closeError,                   \* exception that left a close() call
    termCaller, exc,              \* running terminate(): who called it, pending exception
    signaled, graced, timedOut, killed, termResult, \* what terminate() did
    excType, blockExit, exitClose, exitTerm, outcome, \* __exit__ bookkeeping
    spawnRes, ctorError,          \* constructor: result of each spawn, exception raised
    life,                         \* lifecycle states the pipeline has entered, in order
    wroteOutside,                 \* a frame was accepted while the pipeline was not Running
    firstRet, waitCloses,         \* status of the first close(wait=True) that returned, how many did
    calls                         \* explicit close()/terminate() calls made

cfgVars == <<kind, width, height, fps, masterAudio, beginTime, endTime, path, extraArgs>>
procVars == <<proc, code, reads, ignoresTerm, exits>>
ioVars == <<stream, buf, pipe>>
wfVars == <<frames, wfBroken, wfResult, wfError>>
closeVars == <<closeCaller, closeWait, retval, closeDone, closeRetWait, closeRet, closeRunning,
               closeError>>
termVars == <<termCaller, exc, signaled, graced, timedOut, killed, termResult>>
exitVars == <<excType, blockExit, exitClose, exitTerm, outcome>>
lifeVars == <<life, wroteOutside>>
repeatVars == <<firstRet, waitCloses>>
ctorVars == <<spawnRes, ctorError, args, p1stdout>>
vars == <<cfgVars, pc, procVars, ioVars, wfVars, closeVars, idx, termVars, exitVars,
          ctorVars, lifeVars, repeatVars, calls>>

Procs == 1..2
Kinds == {"FFmpegOutput", "FFplayOutput"}
SpawnResults == {"ok", "FileNotFoundError", "OSError"}
ExitCodes == {0, 2}

\* Number of processes handed to PipeOutput.open by each constructor.
ChainLen(k) == IF k = "FFmpegOutput" THEN 1 ELSE 2
Chain == 1..ChainLen(kind)

\* Output.__init__: frame_bytes and self.bufsize.
FrameBytes(w, h) == h * w * RGB_DEPTH

\* Slip: the buffer sized for one frame, FRAMES_TO_BUFFER left out.
BufSizeOneFrame(w, h) == FrameBytes(w, h)

\* self.bufsize, the bufsize argument of Popen.
BufSize(w, h) == FrameBytes(w, h) * FRAMES_TO_BUFFER

\* Python's `|` on ints of either sign (two's complement, unbounded width).
RECURSIVE BitOr(_, _)
BitOr(a, b) ==
    IF a = 0 THEN b
    ELSE IF b = 0 THEN a
    ELSE IF a = -1 \/ b = -1 THEN -1
    ELSE 2 * BitOr(a \div 2, b \div 2) + (IF a % 2 = 1 \/ b % 2 = 1 THEN 1 ELSE 0)

\* The sink before its constructor has run.
SinkInit ==
    /\ kind \in Kinds
    /\ width \in 1..MaxDim
    /\ height \in 1..MaxDim
    /\ pc = "ctor"
    /\ proc = [p \in Procs |-> "none"]
    /\ code = [p \in Procs |-> 0]
    /\ reads = [p \in Procs |-> FALSE]
    /\ ignoresTerm = [p \in Procs |-> FALSE]
    /\ exits = [p \in Procs |-> FALSE]
    /\ stream = "none"
    /\ buf = 0
    /\ pipe = 0
    /\ frames = 0
    /\ wfBroken = FALSE
    /\ wfResult = "none"
    /\ wfError = "none"
    /\ closeCaller = "none"
    /\ closeWait = FALSE
    /\ retval = 0
    /\ idx = 0
    /\ closeDone = FALSE
    /\ closeRetWait = FALSE
    /\ closeRet = 0
    /\ closeRunning = {}
    /\ closeError = "none"
    /\ termCaller = "none"
    /\ exc = FALSE
    /\ signaled = {}
    /\ graced = {}
    /\ timedOut = {}
    /\ killed = {}
    /\ termResult = "none"
    /\ excType = "unset"
    /\ blockExit = "none"
    /\ exitClose = 0
    /\ exitTerm = 0
    /\ outcome = "none"
    /\ spawnRes = [p \in Procs |-> "none"]
    /\ ctorError = "none"
    /\ args = <<>>
    /\ p1stdout = "none"
    /\ life = <<"Constructing">>
    /\ wroteOutside = FALSE
    /\ firstRet = 0
    /\ waitCloses = 0
    /\ calls = 0

\* Optional values: <<>> is None, <<v>> is the value v.
None == <<>>
Some(v) == <<v>>

FpsValues == {1, 2}
AudioPaths == {"", "a.wav"}
OutputPaths == {None, Some("out.mp4")}
ExtraArgs == {<<>>, <<"-threads", "2">>}

\* Every configuration the command line is built from.
CmdInit ==
    /\ SinkInit
    /\ fps \in FpsValues
    /\ masterAudio \in AudioPaths
    /\ beginTime \in 0..MaxTime
    /\ endTime \in {None} \cup {Some(t) : t \in beginTime..MaxTime}
    /\ path \in OutputPaths
    /\ extraArgs \in ExtraArgs

\* The sink's behaviour does not depend on the command line: the pipeline is
\* explored for the configuration without audio, output path or extra arguments.
Init ==
    /\ SinkInit
    /\ fps = 1
    /\ masterAudio = ""
    /\ beginTime = 0
    /\ endTime = None
    /\ path = None
    /\ extraArgs = <<>>

\* ------------------------------------------------------------ command line
\* A template is held as the tokens shlex.split gives for it, so the template
\* list is a sequence of token sequences and _generate_args flattens it.

PIXEL_FORMAT == "rgb24"
FFMPEG == "ffmpeg"

\* os.path.abspath of a relative path.
AbsPath(p) == "/cwd/" \o p

\* ffmpeg_input_video.
FFmpegInputVideo(w, h, f) ==
    << <<"-f", "rawvideo", "-pixel_format", PIXEL_FORMAT, "-video_size",
         ToString(w) \o "x" \o ToString(h)>>,
       <<"-framerate", ToString(f)>>,
       <<"-i", "-">> >>

\* ffmpeg_input_audio; the path was quoted by shlex.quote and is one token.
FFmpegInputAudio(audioPath) == << <<"-i">>, <<audioPath>> >>

\* Slip: the seek flag appended after the audio input.
AudioGroupsSeekLast(audio, begin, end) ==
    FFmpegInputAudio(AbsPath(audio))
        \o << <<"-ss", ToString(begin)>> >>
        \o (IF end # None THEN << <<"-to", ToString(end[1] - begin)>> >> ELSE <<>>)

\* The `if corr_cfg.master_audio:` body of _FFmpegProcess.__init__.
AudioGroups(audio, begin, end) ==
    << <<"-ss", ToString(begin)>> >>
        \o FFmpegInputAudio(AbsPath(audio))
        \o (IF end # None THEN << <<"-to", ToString(end[1] - begin)>> >> ELSE <<>>)

\* _FFmpegProcess.__init__: the templates after construction.
FFmpegProcessInit(templates) ==
    templates
        \o FFmpegInputVideo(width, height, fps)
        \o (IF masterAudio # "" THEN AudioGroups(masterAudio, beginTime, endTime) ELSE <<>>)

\* Slip: the audio template appended whether or not there is audio.
AddOutputBoth(templates, vt, at) == templates \o <<vt, at>>

\* _FFmpegProcess.add_output.
AddOutput(templates, vt, at) ==
    Append(templates, vt) \o (IF masterAudio # "" THEN <<at>> ELSE <<>>)

\* _FFmpegProcess._generate_args.
RECURSIVE GenerateArgs(_)
GenerateArgs(templates) ==
    IF templates = <<>> THEN <<>> ELSE Head(templates) \o GenerateArgs(Tail(templates))

\* FFmpegOutputConfig / FFplayOutputConfig defaults.
FFmpegVideoTemplate == <<"-c:v", "libx264", "-crf", "18", "-preset", "superfast",
                         "-movflags", "faststart">>
FFmpegAudioTemplate == <<"-c:a", "aac", "-b:a", "384k">>
FFplayVideoTemplate == <<"-c:v", "copy">>
FFplayAudioTemplate == <<"-c:a", "copy">>

\* FFmpegOutput.__init__: video_path.
VideoPath == IF path = None THEN "-" ELSE AbsPath(path[1])

\* The args of ffmpeg.popen in FFmpegOutput.__init__.
FFmpegOutputArgs ==
    GenerateArgs(Append(AddOutput(FFmpegProcessInit(<< <<FFMPEG>>, <<"-y">> >>),
                                  FFmpegVideoTemplate, FFmpegAudioTemplate),
                        extraArgs))
        \o <<VideoPath>>

\* The args of ffmpeg.popen in FFplayOutput.__init__.
FFplayOutputArgs ==
    GenerateArgs(Append(AddOutput(FFmpegProcessInit(<< <<FFMPEG>>, <<"-nostats">> >>),
                                  FFplayVideoTemplate, FFplayAudioTemplate),
                        <<"-f", "nut">>))
        \o <<"-">>

\* ------------------------------------------------------------ constructors

\* The lifecycle state the pipeline is in.
LifeNow == life[Len(life)]

\* A shutdown path starts: close() or terminate() is entered.  A path that is
\* entered again after it has completed leaves the pipeline where it is.
LifeBegin(l, during, final) == IF l[Len(l)] = final THEN l ELSE Append(l, during)

\* A shutdown path completes: close() or terminate() is left.
LifeEnd(l, during, final) == IF l[Len(l)] = during THEN Append(l, final) ELSE l


\* _FFmpegProcess.popen: FileNotFoundError becomes MissingFFmpegError, any
\* other exception of subprocess.Popen propagates unchanged.
PopenError(res) == IF res = "FileNotFoundError" THEN "MissingFFmpegError" ELSE res

\* subprocess.Popen called directly (the ffplay process): nothing is caught.
RawPopenError(res) == res

\* FFmpegOutput.__init__: one process, then open().
FFmpegOutputInit(res, r, ig, ex) ==
    /\ pc = "ctor"
    /\ kind = "FFmpegOutput"
    /\ args' = FFmpegOutputArgs
    /\ spawnRes' = [spawnRes EXCEPT ![1] = res]
    /\ IF res = "ok"
       THEN /\ proc' = [proc EXCEPT ![1] = "running"]
            /\ reads' = [reads EXCEPT ![1] = r]
            /\ ignoresTerm' = [ignoresTerm EXCEPT ![1] = ig]
            /\ exits' = [exits EXCEPT ![1] = ex]
            /\ stream' = "open"
            /\ pc' = "block"
            /\ UNCHANGED ctorError
       ELSE /\ ctorError' = PopenError(res)
            /\ pc' = "ctor_failed"
            /\ UNCHANGED <<proc, reads, ignoresTerm, exits, stream>>
    /\ life' = IF res = "ok" THEN Append(life, "Running") ELSE life
    /\ UNCHANGED <<cfgVars, repeatVars, wroteOutside, code, buf, pipe, wfVars, closeVars, idx, termVars, exitVars, calls,
                   p1stdout>>

\* Slip: the constructor without `p1.stdout.close()`.
StdoutHandleLeftOpen == "open"

\* The sink's handle on p1.stdout when the constructor is through:
\* `p1.stdout.close()` comes after the spawn of ffplay and before open().
StdoutHandleAfterWiring == "closed"

\* FFplayOutput.__init__: p1 = ffmpeg.popen(...), p2 = subprocess.Popen(ffplay),
\* p1.stdout.close(), open(p1, p2).  A failure of the second spawn leaves the
\* constructor with p1 already started: no handler stops it.
FFplayOutputInit(res1, res2, r, ig, ex) ==
    /\ pc = "ctor"
    /\ kind = "FFplayOutput"
    /\ args' = FFplayOutputArgs
    /\ spawnRes' = IF res1 # "ok" THEN [spawnRes EXCEPT ![1] = res1]
                   ELSE [p \in Procs |-> IF p = 1 THEN res1 ELSE res2]
    /\ IF res1 # "ok"
       THEN /\ ctorError' = PopenError(res1)
            /\ pc' = "ctor_failed"
            /\ UNCHANGED <<proc, reads, ignoresTerm, exits, stream, p1stdout>>
       ELSE IF res2 # "ok"
       THEN /\ proc' = [proc EXCEPT ![1] = "running"]
            /\ reads' = [reads EXCEPT ![1] = r]
            /\ ignoresTerm' = [ignoresTerm EXCEPT ![1] = ig[1]]
            /\ exits' = [exits EXCEPT ![1] = ex[1]]
            /\ ctorError' = RawPopenError(res2)
            /\ p1stdout' = "open"
            /\ pc' = "ctor_failed"
            /\ UNCHANGED stream
       ELSE /\ proc' = [p \in Procs |-> "running"]
            /\ reads' = [reads EXCEPT ![1] = r]
            /\ ignoresTerm' = ig
            /\ exits' = ex
            /\ p1stdout' = StdoutHandleAfterWiring
            /\ stream' = "open"
            /\ pc' = "block"
            /\ UNCHANGED ctorError
    /\ life' = IF res1 = "ok" /\ res2 = "ok" THEN Append(life, "Running") ELSE life
    /\ UNCHANGED <<cfgVars, repeatVars, wroteOutside, code, buf, pipe, wfVars, closeVars, idx, termVars, exitVars, calls>>

\* ------------------------------------------------------------ write_frame

\* io.BufferedWriter.write on the stream Popen creates for bufsize > 1:
\* data that fits into the free part of the buffer is copied and nothing is
\* written to the pipe.
Fits(n, b, size) == n <= size - b

\* Bytes one raw write can move into the pipe right now.
Room == PipeCap - pipe
Moved(n) == IF n <= Room THEN n ELSE Room

\* The read end of the pipe is gone once the first process has exited.
PeerGone == proc[1] # "running"

\* Slip: `except Exception`, every failure of the write becomes Stop.
WriteFrameCatchesAll(err) == TRUE

\* The except clause of write_frame.
WriteFrameCatches(err) == err = "BrokenPipeError"

\* write_frame leaving by `return Stop` or by the exception err.
WriteFrameFails(err) ==
    /\ wfError' = err
    /\ IF WriteFrameCatches(err)
       THEN /\ wfResult' = "Stop"
            /\ pc' = "block"
            /\ UNCHANGED excType
       ELSE /\ wfResult' = "Raised"
            /\ excType' = err
            /\ pc' = "block_raised"

\* PipeOutput.write_frame up to the point where the raw write may block.
\* A closed stream makes file.write raise ValueError, which the
\* `except BrokenPipeError` clause does not catch.
WriteFrame ==
    /\ pc = "block"
    /\ frames < MaxFrames
    /\ frames' = frames + 1
    /\ wfBroken' = (stream = "closed" \/ PeerGone)
    /\ IF stream = "closed"
       THEN /\ WriteFrameFails("ValueError")
            /\ UNCHANGED buf
       ELSE IF Fits(FrameBytes(width, height), buf, BufSize(width, height))
       THEN /\ buf' = buf + FrameBytes(width, height)
            /\ wfResult' = "Continue"
            /\ wfError' = "none"
            /\ UNCHANGED <<pc, excType>>
       ELSE /\ wfResult' = "pending"
            /\ wfError' = "none"
            /\ pc' = "wf_flush"
            /\ UNCHANGED <<buf, excType>>
    /\ wroteOutside' = (wroteOutside \/ (wfResult' = "Continue" /\ LifeNow # "Running"))
    /\ UNCHANGED <<cfgVars, repeatVars, life, procVars, stream, pipe, closeVars, idx, termVars,
                   blockExit, exitClose, exitTerm, outcome, ctorVars, calls>>

\* The flush inside write_frame: the buffer is written to the pipe, blocking
\* while the pipe is full; EPIPE becomes BrokenPipeError and the result Stop.
\* Once the buffer is empty the frame is copied into it.
WriteFlush ==
    /\ pc = "wf_flush"
    /\ IF PeerGone
       THEN /\ WriteFrameFails("BrokenPipeError")
            /\ UNCHANGED <<buf, pipe>>
       ELSE /\ Room > 0
            /\ pipe' = pipe + Moved(buf)
            /\ IF Moved(buf) = buf
               THEN /\ buf' = FrameBytes(width, height)
                    /\ wfResult' = "Continue"
                    /\ pc' = "block"
               ELSE /\ buf' = buf - Moved(buf)
                    /\ UNCHANGED <<wfResult, pc>>
            /\ UNCHANGED <<wfError, excType>>
    /\ wroteOutside' = (wroteOutside \/ (wfResult' = "Continue" /\ LifeNow # "Running"))
    /\ UNCHANGED <<cfgVars, repeatVars, life, procVars, stream, frames, wfBroken, closeVars, idx, termVars,
                   blockExit, exitClose, exitTerm, outcome, ctorVars, calls>>

\* ------------------------------------------------------------------ close

\* `return 0` of close(wait=False).
CloseNoWaitStatus == 0

\* Slip: `retval = popen.wait()`, the last exit code wins.
CloseRetvalLast(acc, c) == c

\* `retval |= popen.wait()`.
CloseRetval(acc, c) == BitOr(acc, c)

\* Return of close(): records the call and resumes its caller.  terminate()
\* goes on with `exc = None` and its loop; __exit__ returns None after close().
CloseReturn(v) ==
    /\ closeDone' = TRUE
    /\ closeRetWait' = closeWait
    /\ closeRet' = v
    /\ waitCloses' = IF closeWait THEN waitCloses + 1 ELSE waitCloses
    /\ firstRet' = IF closeWait /\ waitCloses = 0 THEN v ELSE firstRet
    /\ closeRunning' = {p \in Chain : proc[p] = "running"}
    /\ life' = IF closeCaller = "terminate" THEN life ELSE LifeEnd(life, "Closing", "Closed")
    /\ IF closeCaller = "terminate"
       THEN /\ pc' = "term_loop"
            /\ exc' = FALSE
            /\ idx' = 1
            /\ UNCHANGED outcome
       ELSE IF closeCaller = "exit"
       THEN /\ pc' = "done"
            /\ outcome' = "returned"
            /\ UNCHANGED <<exc, idx>>
       ELSE /\ pc' = "block"
            /\ UNCHANGED <<exc, idx, outcome>>

\* close(wait) called by the user inside the block.
CloseCall(w) ==
    /\ pc = "block"
    /\ calls < MaxCalls
    /\ calls' = calls + 1
    /\ closeCaller' = "user"
    /\ closeWait' = w
    /\ pc' = "close_stream"
    /\ life' = LifeBegin(life, "Closing", "Closed")
    /\ UNCHANGED <<cfgVars, repeatVars, wroteOutside, procVars, ioVars, wfVars, retval, closeDone, closeRetWait,
                   closeRet, closeRunning, closeError, idx, termVars, exitVars, ctorVars>>

\* Slip: the try/except around `self._stream.close()` left out.
CloseCatchesNothing(err) == FALSE

\* `except (BrokenPipeError, OSError)` of close().
CloseCatches(err) == err \in {"BrokenPipeError", "OSError"}

\* An exception leaving close(): it leaves terminate() and __exit__ as well
\* when they made the call, and the block when the user made it.
CloseRaises(err) ==
    /\ closeError' = err
    /\ IF closeCaller = "exit" \/ (closeCaller = "terminate" /\ termCaller = "exit")
       THEN /\ pc' = "done"
            /\ outcome' = "raised_close"
            /\ UNCHANGED excType
       ELSE /\ pc' = "block_raised"
            /\ excType' = err
            /\ UNCHANGED outcome

\* self._stream.close() with its except clause.  Closing a closed file does
\* nothing.  Otherwise the buffer is flushed first, blocking while the pipe is
\* full; BrokenPipeError of the flush is swallowed, the file is closed anyway.
StreamClose ==
    /\ pc = "close_stream"
    /\ IF stream = "closed" \/ buf = 0
       THEN /\ stream' = "closed"
            /\ pc' = "close_after"
            /\ UNCHANGED <<buf, pipe, closeError, excType, outcome>>
       ELSE IF PeerGone
       THEN /\ stream' = "closed"
            /\ buf' = 0
            /\ IF CloseCatches("BrokenPipeError")
               THEN /\ pc' = "close_after"
                    /\ UNCHANGED <<closeError, excType, outcome>>
               ELSE CloseRaises("BrokenPipeError")
            /\ UNCHANGED pipe
       ELSE /\ Room > 0
            /\ pipe' = pipe + Moved(buf)
            /\ buf' = buf - Moved(buf)
            /\ IF Moved(buf) = buf
               THEN /\ stream' = "closed"
                    /\ pc' = "close_after"
               ELSE UNCHANGED <<stream, pc>>
            /\ UNCHANGED <<closeError, excType, outcome>>
    /\ UNCHANGED <<cfgVars, repeatVars, lifeVars, procVars, wfVars, closeCaller, closeWait, retval, closeDone,
                   closeRetWait, closeRet, closeRunning, idx, termVars,
                   blockExit, exitClose, exitTerm, ctorVars, calls>>

\* Slip: a close() that finds an earlier close() done returns at once too.
CloseSkipsWaitWhenClosed(wait, closedBefore) == ~wait \/ closedBefore

\* `if not wait`: nothing but the argument makes close() skip the wait loop,
\* whether or not an earlier close() has returned.
CloseSkipsWait(wait, closedBefore) == ~wait

\* `if not wait: return 0`.
CloseNoWait ==
    /\ pc = "close_after"
    /\ CloseSkipsWait(closeWait, closeDone)
    /\ CloseReturn(CloseNoWaitStatus)
    /\ UNCHANGED <<cfgVars, wroteOutside, procVars, ioVars, wfVars, closeCaller, closeWait, retval, closeError,
                   termCaller, signaled, graced, timedOut, killed, termResult,
                   excType, blockExit, exitClose, exitTerm, ctorVars, calls>>

\* `retval = 0` and entry into the wait loop.
CloseWaitBegin ==
    /\ pc = "close_after"
    /\ ~CloseSkipsWait(closeWait, closeDone)
    /\ retval' = 0
    /\ idx' = 1
    /\ pc' = "close_wait"
    /\ UNCHANGED <<cfgVars, repeatVars, lifeVars, procVars, ioVars, wfVars, closeCaller, closeWait, closeDone,
                   closeRetWait, closeRet, closeRunning, closeError, termVars, exitVars, ctorVars, calls>>

\* One iteration of `for popen in self._pipeline: retval |= popen.wait()`;
\* popen.wait() returns only when the process has exited.  After the last
\* process `return retval`.
CloseWaitStep ==
    /\ pc = "close_wait"
    /\ proc[idx] = "exited"
    /\ retval' = CloseRetval(retval, code[idx])
    /\ IF idx = ChainLen(kind)
       THEN CloseReturn(CloseRetval(retval, code[idx]))
       ELSE /\ idx' = idx + 1
            /\ UNCHANGED <<pc, closeDone, closeRetWait, closeRet, closeRunning, exc, outcome,
                        life, repeatVars>>
    /\ UNCHANGED <<cfgVars, wroteOutside, procVars, ioVars, wfVars, closeCaller, closeWait, closeError,
                   termCaller, signaled, graced, timedOut, killed, termResult,
                   excType, blockExit, exitClose, exitTerm, ctorVars, calls>>

\* -------------------------------------------------------------- terminate

\* Start of terminate(): `self.close(wait=False)`.
TerminateBegin(who) ==
    /\ termCaller' = who
    /\ signaled' = {}
    /\ graced' = {}
    /\ timedOut' = {}
    /\ killed' = {}
    /\ termResult' = "none"
    /\ closeCaller' = "terminate"
    /\ closeWait' = FALSE
    /\ pc' = "close_stream"
    /\ life' = LifeBegin(life, "Terminating", "Terminated")

\* terminate() called by the user inside the block.
TerminateCall ==
    /\ pc = "block"
    /\ calls < MaxCalls
    /\ calls' = calls + 1
    /\ TerminateBegin("user")
    /\ UNCHANGED <<cfgVars, repeatVars, wroteOutside, procVars, ioVars, wfVars, retval, closeDone, closeRetWait,
                   closeRet, closeRunning, closeError, idx, exc, exitVars, ctorVars>>

\* `popen.terminate()` for the process the loop is at.
TermSignal ==
    /\ pc = "term_loop"
    /\ signaled' = signaled \cup {idx}
    /\ pc' = "term_wait"
    /\ UNCHANGED <<cfgVars, repeatVars, lifeVars, procVars, ioVars, wfVars, closeVars, idx, termCaller, exc,
                   graced, timedOut, killed, termResult, exitVars, ctorVars, calls>>

\* Slip: `exc` is reset on every iteration, only the last process counts.
ExcOfLastOnly(e, timeout) == timeout

\* The value of `exc` after popen.wait(1): set by the except clause only.
ExcAfterWait(e, timeout) == IF timeout THEN TRUE ELSE e

\* Slip: the except clause re-raises at once, leaving the loop.
LoopStopsAtTimeout(i, n, timeout) == i < n /\ ~timeout

\* Where the loop goes after process i: the for loop has no break and no raise.
LoopContinues(i, n, timeout) == i < n

\* popen.wait(1) returns: the process exited within the grace period.
TermWaitExited ==
    /\ pc = "term_wait"
    /\ proc[idx] = "exited"
    /\ graced' = graced \cup {idx}
    /\ exc' = ExcAfterWait(exc, FALSE)
    /\ idx' = idx + 1
    /\ pc' = IF LoopContinues(idx, ChainLen(kind), FALSE) THEN "term_loop" ELSE "term_end"
    /\ UNCHANGED <<cfgVars, repeatVars, lifeVars, procVars, ioVars, wfVars, closeVars, termCaller, signaled,
                   timedOut, killed, termResult, exitVars, ctorVars, calls>>

\* popen.wait(1) raises TimeoutExpired: `exc = e; popen.kill()`.
TermWaitTimeout ==
    /\ pc = "term_wait"
    /\ proc[idx] = "running"
    /\ graced' = graced \cup {idx}
    /\ timedOut' = timedOut \cup {idx}
    /\ exc' = ExcAfterWait(exc, TRUE)
    /\ killed' = killed \cup {idx}
    /\ proc' = [proc EXCEPT ![idx] = "exited"]
    /\ code' = [code EXCEPT ![idx] = -9]
    /\ idx' = idx + 1
    /\ pc' = IF LoopContinues(idx, ChainLen(kind), TRUE) THEN "term_loop" ELSE "term_end"
    /\ UNCHANGED <<cfgVars, repeatVars, lifeVars, reads, ignoresTerm, exits, ioVars, wfVars, closeVars,
                   termCaller, signaled, termResult, exitVars, ctorVars, calls>>

\* Slip: __exit__ ending in `return True`, which swallows the exception.
ExitReturnsTrue == TRUE

\* Whether __exit__ suppresses the block's exception: it has no return
\* statement, so it returns None and the exception goes on.
ExitSuppresses == FALSE

\* `if exc: raise exc`, else terminate() returns None.  Called from __exit__,
\* a return lets the block's exception propagate (__exit__ returns None) and a
\* raise replaces it; called by the user, a raise leaves the block.
TermEnd ==
    /\ pc = "term_end"
    /\ termResult' = IF exc THEN "raised" ELSE "returned"
    /\ IF termCaller = "exit"
       THEN /\ pc' = "done"
            /\ outcome' = IF exc THEN "raised_timeout"
                        ELSE IF ExitSuppresses THEN "returned" ELSE "raised_block"
            /\ UNCHANGED excType
       ELSE /\ pc' = IF exc THEN "block_raised" ELSE "block"
            /\ excType' = IF exc THEN "TimeoutExpired" ELSE excType
            /\ UNCHANGED outcome
    /\ life' = LifeEnd(life, "Terminating", "Terminated")
    /\ UNCHANGED <<cfgVars, repeatVars, wroteOutside, procVars, ioVars, wfVars, closeVars, idx, termCaller, exc,
                   signaled, graced, timedOut, killed, blockExit, exitClose, exitTerm, ctorVars,
                   calls>>

\* --------------------------------------------------------------- __exit__

\* Slip: __exit__ that closes whatever way the block ended.
ExitPathAlwaysClose(et) == "close"

\* The branch of PipeOutput.__exit__.
ExitPath(et) == IF et = "None" THEN "close" ELSE "terminate"

\* __exit__(exc_type, ...): the block ends normally, the renderer raises in
\* it, or an exception of write_frame / terminate is leaving it.
Exit(et) ==
    /\ \/ pc = "block" /\ et \in {"None", "Error"}
       \/ pc = "block_raised" /\ et = excType
    /\ excType' = et
    /\ blockExit' = IF pc = "block" /\ et = "None" THEN "normal" ELSE "raised"
    /\ IF ExitPath(et) = "close"
       THEN /\ exitClose' = exitClose + 1
            /\ closeCaller' = "exit"
            /\ closeWait' = TRUE
            /\ pc' = "close_stream"
            /\ life' = LifeBegin(life, "Closing", "Closed")
            /\ UNCHANGED <<exitTerm, termVars>>
       ELSE /\ exitTerm' = exitTerm + 1
            /\ TerminateBegin("exit")
            /\ UNCHANGED <<exitClose, exc>>
    /\ UNCHANGED <<cfgVars, repeatVars, wroteOutside, procVars, ioVars, wfVars, retval, closeDone, closeRetWait,
                   closeRet, closeRunning, closeError, idx, outcome, ctorVars, calls>>

\* The sink is dropped inside its lifetime without close(), terminate() or
\* __exit__: Output and PipeOutput define no finaliser, so no code of the sink
\* runs and its processes are left as they are.
Drop ==
    /\ pc = "block"
    /\ pc' = "dropped"
    /\ UNCHANGED <<cfgVars, repeatVars, lifeVars, procVars, ioVars, wfVars, closeVars, idx, termVars, exitVars,
                   ctorVars, calls>>

\* ---------------------------------------------------------- child processes

\* The first process consumes k bytes of its stdin.
ProcRead(k) ==
    /\ proc[1] = "running"
    /\ reads[1]
    /\ k \in 1..pipe
    /\ pipe' = pipe - k
    /\ UNCHANGED <<cfgVars, repeatVars, lifeVars, pc, procVars, stream, buf, wfVars, closeVars, idx, termVars,
                   exitVars, ctorVars, calls>>

\* A process exits on its own (end of input, error, crash) with status c.
ProcExit(p, c) ==
    /\ proc[p] = "running"
    /\ exits[p]
    /\ proc' = [proc EXCEPT ![p] = "exited"]
    /\ code' = [code EXCEPT ![p] = c]
    /\ UNCHANGED <<cfgVars, repeatVars, lifeVars, pc, reads, ignoresTerm, exits, ioVars, wfVars, closeVars, idx,
                   termVars, exitVars, ctorVars, calls>>

\* A process that honours SIGTERM dies of it; Popen reports -15.
ProcTermExit(p) ==
    /\ proc[p] = "running"
    /\ p \in signaled
    /\ ~ignoresTerm[p]
    /\ proc' = [proc EXCEPT ![p] = "exited"]
    /\ code' = [code EXCEPT ![p] = -15]
    /\ UNCHANGED <<cfgVars, repeatVars, lifeVars, pc, reads, ignoresTerm, exits, ioVars, wfVars, closeVars, idx,
                   termVars, exitVars, ctorVars, calls>>

CallerNext ==
    \/ \E res \in SpawnResults, r, ig, ex \in BOOLEAN : FFmpegOutputInit(res, r, ig, ex)
    \/ \E res1, res2 \in SpawnResults, r \in BOOLEAN, ig, ex \in [Procs -> BOOLEAN] :
          FFplayOutputInit(res1, res2, r, ig, ex)
    \/ WriteFrame
    \/ WriteFlush
    \/ \E w \in BOOLEAN : CloseCall(w)
    \/ StreamClose
    \/ CloseNoWait
    \/ CloseWaitBegin
    \/ CloseWaitStep
    \/ TerminateCall
    \/ TermSignal
    \/ TermWaitExited
    \/ TermWaitTimeout
    \/ TermEnd
    \/ \E et \in {"None", "Error", "ValueError", "BrokenPipeError", "TimeoutExpired"} : Exit(et)
    \/ Drop

ProcNext ==
    \/ \E k \in 1..PipeCap : ProcRead(k)
    \/ \E p \in Procs, c \in ExitCodes : ProcExit(p, c)
    \/ \E p \in Procs : ProcTermExit(p)

Next == CallerNext \/ ProcNext

Spec == Init /\ [][Next]_vars

\* The constructors alone, over every configuration.
CmdNext ==
    \/ \E res \in SpawnResults, r, ig, ex \in BOOLEAN : FFmpegOutputInit(res, r, ig, ex)
    \/ \E res1, res2 \in SpawnResults, r \in BOOLEAN, ig, ex \in [Procs -> BOOLEAN] :
          FFplayOutputInit(res1, res2, r, ig, ex)

CmdSpec == CmdInit /\ [][CmdNext]_vars

\* The caller thread runs whenever it is not blocked, and a process that
\* drains its input keeps draining it.
FairSpec == Spec /\ WF_vars(CallerNext) /\ WF_vars(\E k \in 1..PipeCap : ProcRead(k))

\* ------------------------------------------------------------------ claims

InTerminate ==
    \/ pc \in {"close_stream", "close_after"} /\ closeCaller = "terminate"
    \/ pc \in {"term_loop", "term_wait", "term_end"}

Bit(x, k) == (x \div (2 ^ k)) % 2 = 1
StatusBits == 0..8

\* C1: once the block has been left, __exit__ has started exactly one shutdown
\* path: close(wait=True) exactly when the block ended normally, terminate()
\* exactly when it ended by an exception; before that it has started neither.
C1_ExactlyOneShutdownPath ==
    /\ blockExit = "none" => exitClose = 0 /\ exitTerm = 0
    /\ blockExit = "normal" => exitClose = 1 /\ exitTerm = 0
    /\ blockExit = "raised" => exitClose = 0 /\ exitTerm = 1
    /\ closeCaller = "exit" => closeWait /\ blockExit = "normal"
    /\ termCaller = "exit" => blockExit = "raised"

C1_Witness ==
    /\ pc = "done"
    /\ blockExit = "raised"
    /\ exitTerm = 1
    /\ termResult = "returned"

\* C2: in terminate() a process whose grace period ran out is followed by the
\* signalling of the next process of the chain, and when terminate() returns
\* or raises every process of the chain has been sent the terminate signal
\* and has been waited for.
C2_WholeChainSignaled ==
    /\ \A p \in timedOut :
          p < ChainLen(kind) => (pc = "term_loop" /\ idx = p + 1) \/ (p + 1) \in signaled
    /\ termResult # "none" => signaled = Chain /\ graced = Chain

C2_Witness ==
    /\ kind = "FFplayOutput"
    /\ termResult = "raised"
    /\ timedOut = {1}
    /\ 2 \in signaled
    /\ 2 \in graced

\* C3: terminate() kills exactly the processes whose grace period ran out,
\* raises if and only if there is such a process, and returns normally if
\* every process exited within its grace period.
C3_KillAndRaiseIffTimeout ==
    /\ killed = timedOut
    /\ \A p \in killed : proc[p] = "exited"
    /\ termResult = "raised" => timedOut # {}
    /\ termResult = "returned" => timedOut = {}
    /\ pc = "term_end" => (exc <=> timedOut # {})

C3_Witness ==
    /\ kind = "FFplayOutput"
    /\ termResult = "raised"
    /\ killed = {2}
    /\ 1 \in graced

\* C4: a terminate() that has been entered always eventually returns or
\* raises, whatever the child processes do.
C4_TerminateEnds == InTerminate ~> ~InTerminate

\* C5: a write_frame call made when the first process has already exited or
\* the stream has already been closed gives Stop: it neither raises nor
\* reports that the frame was taken.
C5_WriteAfterExitStops ==
    (wfBroken /\ wfResult \notin {"none", "pending"}) => wfResult = "Stop"

\* C6: when close(wait=True) returns, no process of the chain is running and
\* the status is the bitwise OR of the exit codes: zero exactly when every
\* process exited with zero.
C6_CloseStatusIsOr ==
    (closeDone /\ closeRetWait) =>
        /\ closeRunning = {}
        /\ \A p \in Chain : proc[p] = "exited"
        /\ \A k \in StatusBits : Bit(closeRet, k) <=> \E p \in Chain : Bit(code[p], k)
        /\ (closeRet = 0) <=> \A p \in Chain : code[p] = 0
        /\ (closeRet < 0) <=> \E p \in Chain : code[p] < 0

C6_Witness ==
    /\ kind = "FFplayOutput"
    /\ closeDone
    /\ closeRetWait
    /\ code[1] = 2
    /\ code[2] = 0
    /\ closeRet = 2

\* A flush that can never finish: the pipe is full, the first process does not
\* drain it, does not exit on its own, and no signal will end it.
StuckFlush ==
    /\ stream = "open"
    /\ buf > 0
    /\ Room = 0
    /\ proc[1] = "running"
    /\ ~reads[1]
    /\ ~exits[1]
    /\ 1 \notin signaled \/ ignoresTerm[1]

\* C7: close(wait=False) never blocks: it is never held in the closing of the
\* stream by a process that neither drains its input nor exits.
C7_CloseNoWaitNeverBlocks == ~(pc = "close_stream" /\ ~closeWait /\ StuckFlush)

\* Every status close(wait=True) can return for a chain of one or two processes.
AllCodes == ExitCodes \cup {-15, -9}
WaitStatuses == AllCodes \cup {BitOr(a, b) : a, b \in AllCodes}

\* C8: the value returned by close(wait=False) is none of the statuses that
\* close(wait=True) can return, in particular not 0.
C8_NoWaitStatusIsSentinel == (closeDone /\ ~closeRetWait) => closeRet \notin WaitStatuses

\* C9: the block is entered only with every process of the chain spawned, and
\* when the constructor fails none of the processes it spawned is still
\* running.
C9_NoProcessLeftOnLaunchFailure ==
    /\ pc = "block" => \A p \in Chain : spawnRes[p] = "ok"
    /\ pc = "ctor_failed" => \A p \in Procs : proc[p] # "running"

\* C10: a spawn that fails because the executable is not found, of the
\* encoder or of the player, makes the constructor raise MissingFFmpegError,
\* and no other spawn failure does.
C10_NotFoundIsTyped ==
    \A p \in Procs :
        /\ spawnRes[p] = "FileNotFoundError" => ctorError = "MissingFFmpegError"
        /\ spawnRes[p] = "OSError" => ctorError # "MissingFFmpegError"

\* C11: once __exit__ has finished, by returning or by raising, the stream is
\* closed and no process of the chain is running; and a sink that was dropped
\* without close() or terminate() has no process of its chain running.
C11_NoLeak ==
    /\ pc = "done" => stream = "closed" /\ \A p \in Chain : proc[p] = "exited"
    /\ pc = "dropped" => \A p \in Chain : proc[p] # "running"

HasAudio == masterAudio # ""
Has(tok) == \E i \in 1..Len(args) : args[i] = tok
Count(tok) == Cardinality({i \in 1..Len(args) : args[i] = tok})

\* Where the output templates start: after the 2 global tokens, the 10 tokens
\* of the video input and the audio groups.
AudioLen == IF ~HasAudio THEN 0 ELSE IF endTime = None THEN 4 ELSE 6
OutStart == 13 + AudioLen

\* C12: the command starts with the program name and the global flag, then the
\* raw-video input ending with `-i -`, then with audio `-ss begin` before the
\* audio input `-i path` and the trim flag `-to dur` after it, then the
\* encoding templates and extra arguments, and the destination is the last
\* token.
C12_GroupOrder ==
    pc # "ctor" =>
        /\ args[1] = "ffmpeg"
        /\ args[2] = (IF kind = "FFmpegOutput" THEN "-y" ELSE "-nostats")
        /\ SubSeq(args, 3, 8) = <<"-f", "rawvideo", "-pixel_format", "rgb24", "-video_size",
                                  ToString(width) \o "x" \o ToString(height)>>
        /\ SubSeq(args, 9, 12) = <<"-framerate", ToString(fps), "-i", "-">>
        /\ HasAudio =>
              /\ SubSeq(args, 13, 14) = <<"-ss", ToString(beginTime)>>
              /\ SubSeq(args, 15, 16) = <<"-i", "/cwd/" \o masterAudio>>
              /\ endTime # None =>
                    SubSeq(args, 17, 18) = <<"-to", ToString(endTime[1] - beginTime)>>
        /\ args[OutStart] = "-c:v"
        /\ \A i \in OutStart..Len(args) : args[i] \notin {"-ss", "-to", "-i"}
        /\ HasAudio => \E i \in (OutStart + 1)..(Len(args) - 1) : args[i] = "-c:a"
        /\ Len(args) > OutStart
        /\ args[Len(args)] =
              (IF kind = "FFplayOutput" \/ path = None THEN "-" ELSE "/cwd/" \o path[1])
        /\ kind = "FFplayOutput" => SubSeq(args, Len(args) - 2, Len(args) - 1) = <<"-f", "nut">>
        /\ (kind = "FFmpegOutput" /\ extraArgs # <<>>) =>
              SubSeq(args, Len(args) - Len(extraArgs), Len(args) - 1) = extraArgs

C12_Witness ==
    /\ pc = "block"
    /\ kind = "FFmpegOutput"
    /\ HasAudio
    /\ endTime = Some(2)
    /\ beginTime = 1
    /\ path # None
    /\ extraArgs # <<>>
    /\ Len(args) = 33

\* C13: `-ss`, the audio input and the audio encoding template are in the
\* command exactly when there is an audio source, `-to` exactly when there is
\* an audio source and an end time, and the video encoding template always.
C13_GroupPresence ==
    pc # "ctor" =>
        /\ Has("-ss") <=> HasAudio
        /\ Count("-i") = (IF HasAudio THEN 2 ELSE 1)
        /\ Has("/cwd/" \o masterAudio) <=> HasAudio
        /\ Has("-c:a") <=> HasAudio
        /\ Has("-to") <=> (HasAudio /\ endTime # None)
        /\ Count("-c:v") = 1

C13_Witness ==
    /\ pc = "block"
    /\ kind = "FFplayOutput"
    /\ HasAudio
    /\ endTime = None
    /\ Has("-ss")
    /\ Has("-c:a")
    /\ ~Has("-to")

\* Who holds an end of the pipe between ffmpeg's stdout and ffplay's stdin:
\* ffmpeg the write end, ffplay and (until it closes p1.stdout) the sink the
\* read end.  Popen keeps no write end in the parent.
PlayerPipeHolders ==
    (IF proc[1] = "running" THEN {"encoder"} ELSE {})
        \cup (IF proc[2] = "running" THEN {"player"} ELSE {})
        \cup (IF p1stdout = "open" THEN {"sink"} ELSE {})

\* C14: once the constructor of FFplayOutput has returned, the sink has closed
\* its handle on ffmpeg's stdout: only ffmpeg and ffplay hold the pipe, and
\* when ffmpeg has exited nobody but ffplay holds it.
C14_StdoutHandleClosed ==
    (kind = "FFplayOutput" /\ pc \notin {"ctor", "ctor_failed"}) =>
        /\ p1stdout = "closed"
        /\ PlayerPipeHolders \subseteq {"encoder", "player"}
        /\ proc[1] = "exited" => PlayerPipeHolders \subseteq {"player"}

C14_Witness ==
    /\ kind = "FFplayOutput"
    /\ pc = "block"
    /\ p1stdout = "closed"
    /\ proc[1] = "exited"
    /\ proc[2] = "running"

\* C15: a failure of the write that is not BrokenPipeError leaves write_frame
\* as an exception, not as Stop; nothing else runs in the block after it, and
\* when it has left the block __exit__ has run terminate() and not close().
C15_OtherWriteErrorsPropagate ==
    /\ wfError \notin {"none", "BrokenPipeError"} => wfResult = "Raised"
    /\ wfResult = "Raised" =>
          \/ pc = "block_raised" /\ excType = wfError
          \/ blockExit = "raised" /\ excType = wfError /\ exitTerm = 1 /\ exitClose = 0
                /\ termCaller = "exit"

C15_Witness ==
    /\ wfError = "ValueError"
    /\ wfResult = "Raised"
    /\ pc = "done"
    /\ exitTerm = 1
    /\ termResult = "returned"

\* C16: no exception leaves close(): a close() that finds the stream already
\* closed or the first process gone goes on with the rest of close(), and a
\* close(wait=True) that has returned has waited for every process and its
\* status is zero exactly when every exit code is.
C16_CloseAbsorbsBrokenPeer ==
    /\ [](closeError = "none")
    /\ []((closeDone /\ closeRetWait) =>
            /\ closeRunning = {}
            /\ (closeRet = 0) <=> \A p \in Chain : code[p] = 0)
    /\ [][(pc = "close_stream" /\ (stream = "closed" \/ PeerGone))
            => pc' \in {"close_stream", "close_after"}]_vars

C16_Witness ==
    /\ wfResult = "Stop"
    /\ pc = "done"
    /\ outcome = "returned"
    /\ closeDone
    /\ closeRetWait
    /\ closeError = "none"
    /\ stream = "closed"

\* The two ways through the lifecycle.
LifePaths ==
    { <<"Constructing", "Running", "Closing", "Closed">>,
      <<"Constructing", "Running", "Terminating", "Terminated">> }

\* C17: the lifecycle is Constructing -> Running -> (Closing -> Closed |
\* Terminating -> Terminated): the states entered so far are the beginning of
\* one of the two paths, so Closed and Terminated are never left and no
\* pipeline enters both Closing and Terminating; and no frame is accepted by
\* the stream while the pipeline is not Running.
C17_LifecycleIsOnePath ==
    /\ \E q \in LifePaths : Len(life) <= Len(q) /\ life = SubSeq(q, 1, Len(life))
    /\ ~wroteOutside

\* C18: flow control is by blocking only.  The sink's buffer never holds more
\* than 2 x width x height x 3 bytes; write_frame goes to the pipe only when
\* the frame does not fit into what is left of exactly that capacity; a step
\* that makes write_frame return Continue has put the whole frame into the
\* buffer or the pipe; and a write_frame that finds the pipe full with its
\* reader alive does not return while the pipe stays full.
C18_FlowControlByBlocking ==
    /\ [](buf <= 2 * width * height * 3)
    /\ [][(pc = "block" /\ pc' = "wf_flush")
            => buf + FrameBytes(width, height) > 2 * width * height * 3]_vars
    /\ [][(wfResult' = "Continue" /\ (frames' # frames \/ wfResult = "pending"))
            => buf' + pipe' = buf + pipe + FrameBytes(width, height)]_vars
    /\ [][(pc = "wf_flush" /\ pipe = PipeCap /\ ~PeerGone)
            => (pc' = "wf_flush" /\ wfResult' = "pending" /\ frames' = frames
                /\ buf' = buf)]_vars

C18_Witness ==
    /\ pc = "wf_flush"
    /\ wfResult = "pending"
    /\ pipe = PipeCap
    /\ buf + FrameBytes(width, height) > 2 * width * height * 3
    /\ proc[1] = "running"
    /\ ~reads[1]

\* A close(wait=True) running after an earlier close(wait=True) has returned.
RepeatClose ==
    /\ waitCloses >= 1
    /\ closeWait
    /\ closeCaller \in {"user", "exit"}
    /\ pc \in {"close_stream", "close_after", "close_wait"}

\* C19: close(wait=True) is idempotent.  A second close(wait=True) raises
\* nothing, finds the stream closed and every process it waits for already
\* exited, signals no process and changes no exit code, and returns the
\* status the first one returned.
C19_CloseIsIdempotent ==
    /\ [](waitCloses >= 1 => closeError = "none")
    /\ []((closeDone /\ closeRetWait /\ waitCloses >= 2) => closeRet = firstRet)
    /\ [](RepeatClose =>
            /\ pc = "close_stream" => stream = "closed"
            /\ pc = "close_wait" => proc[idx] = "exited")
    /\ [][RepeatClose => (signaled' = signaled /\ proc' = proc /\ code' = code)]_vars

C19_Witness ==
    /\ waitCloses >= 2
    /\ closeDone
    /\ closeRetWait
    /\ firstRet # 0
    /\ closeRet = firstRet
    /\ pc = "done"
    /\ outcome = "returned"

\* C20: __exit__ never swallows the block's error.  When the block raised and
\* __exit__ is through, the outcome is the block's own exception if
\* terminate() killed nothing, the termination timeout exactly when it had to
\* kill some process, and never a normal return.
C20_ExitNeverSwallows ==
    (pc = "done" /\ blockExit = "raised") =>
        /\ outcome \in {"raised_block", "raised_timeout"}
        /\ (outcome = "raised_timeout") <=> (timedOut # {})
        /\ killed = timedOut
        /\ termCaller = "exit"

C20_Witness ==
    /\ pc = "done"
    /\ blockExit = "raised"
    /\ excType = "Error"
    /\ outcome = "raised_block"
    /\ termResult = "returned"
    /\ timedOut = {}
====
